---- MODULE Spec2Model ----
(***************************************************************************)
(* Model of lilcom's lpc_stream.h: class LpcPrediction (the block-buffered *)
(* prediction state shared by both directions), LpcStream::Write (encoder) *)
(* and ReverseLpcStream::Read (decoder).                                   *)
(*                                                                         *)
(* The three collaborators whose code lives in int_stream.h and lpc_math.h *)
(* (the residual coder, compute_lpc_prediction and ToeplitzLpcEstimator)   *)
(* are modelled from their documented contract.                            *)
(***************************************************************************)
EXTENDS Integers, Sequences, FiniteSets, TLC

(* ---------------------------------------------------------------- bounds *)

\* Largest lpc_order tried (orders 0..MaxOrder).
MaxOrder == 2

\* Largest block_size tried (block sizes 1..MaxBlockSize).
MaxBlockSize == 2

\* Largest number of samples written to one stream.
MaxSamples == 3

(* ------------------------------------------------------- integer widths *)

Int16Min == -32768
Int16Max == 32767
Int32Min == -2147483647 - 1
Int32Max == 2147483647

InInt16(v) == Int16Min <= v /\ v <= Int16Max

\* Input samples offered to Write: both ends of the int16 range and values
\* between them, so residuals of both signs and of more than 16 bits occur.
Samples == {Int16Min, 10, Int16Max}

\* Numbers of low bits the residual coder may drop (TruncationConfig);
\* 0 is the lossless configuration.
TruncBitsOptions == {0, 2}

\* Residuals a damaged code buffer may decode to in place of the committed
\* one: a small one and the two ends of the int32 range.
CorruptResiduals == {1, Int32Max, Int32Min}

\* The last block position the assert in AdvanceLpcState looks at (t_mod > 2
\* is let through), the smallest block size that has a position beyond it,
\* the stream length that fills two such blocks, and the samples written to
\* them.
AssertSkipAbove == 2
WideBlockSize == AssertSkipAbove + 2
WideSamples == WideBlockSize + WideBlockSize
WideValues == {10, Int16Max}

VARIABLES
    cfg,      \* [lpc_order, block_size, trunc_bits]: the two configurations
    phase,    \* "writing" | "reading" | "aborted"
    enc,      \* LpcStream's LpcPrediction state
    dec,      \* ReverseLpcStream's LpcPrediction state
    inp,      \* the samples passed to Write so far
    rec,      \* the values Write reported through decompressed_value_out
    code,     \* the residuals the encoder-side coder committed, in order
    codeIn,   \* the residuals the decoder-side coder has yielded, in order
    out,      \* the values Read stored through *value, in order
    dres,     \* the residuals of the successful Reads, in order
    lastRead, \* what the last call of Read reported
    seen,     \* every (cause, return value) pair Read has reported
    rangeFailed, \* a Read has failed its int16 range check
    lastPred  \* the last GetPrediction() made directly by a caller

vars == <<cfg, phase, enc, dec, inp, rec, code, codeIn, out, dres,
          lastRead, seen, rangeFailed, lastPred>>

(* ------------------------------------------------------- configuration *)

\* int_math::LpcConfig: Config().lpc_order and Config().block_size.
lpc_order == cfg.lpc_order
block_size == cfg.block_size

\* The indices buffer_start_ may be used with: buffer_start_ points at
\* buffer_storage_[lpc_order], so buffer_start_[-lpc_order] is the first
\* element of the vector and buffer_start_[block_size - 1] the last.
BufferIndex == (0 - lpc_order) .. (block_size - 1)
ResidualIndex == 0 .. (block_size - 1)
CoeffIndex == 1 .. lpc_order

(* ------------------------------------- collaborators (from the contract) *)

RECURSIVE SumOver(_, _, _)
\* Sum of f[i] for i in lo..hi.
SumOver(f, lo, hi) == IF lo > hi THEN 0 ELSE f[lo] + SumOver(f, lo + 1, hi)

Clamp16(v) == IF v < Int16Min THEN Int16Min ELSE IF v > Int16Max THEN Int16Max ELSE v

\* int_math::compute_lpc_prediction(buffer_pos, coeffs): the dot product of the
\* coefficients with the lpc_order samples just before buffer_pos, buffer_pos[-1]
\* first, brought into the int16 range.
compute_lpc_prediction(buffer, at, coeffs) ==
    Clamp16(SumOver([j \in CoeffIndex |-> coeffs[j] * buffer[at - j]], 1, lpc_order))

\* The coefficients a freshly constructed ToeplitzLpcEstimator holds: all zero.
InitialLpcCoeffs == [j \in CoeffIndex |-> 0]

\* ToeplitzLpcEstimator::AcceptBlock(buffer_start_, residual): a deterministic
\* function of the lpc_order + block_size samples and the block_size residuals
\* it is handed, to an lpc_order-long coefficient vector.  Every sample and
\* every residual of the window has its own weight, so a change of any one of
\* them can change the vector.
AcceptBlock(buffer, residual) ==
    LET h == SumOver([i \in BufferIndex |-> (i + lpc_order + 1) * buffer[i]],
                     0 - lpc_order, block_size - 1)
             + SumOver([i \in ResidualIndex |-> (i + 1) * residual[i]],
                       0, block_size - 1)
    IN  [j \in CoeffIndex |-> (((h + j) % 7) % 3) - 1]

\* What a dropped-bits coder keeps of a residual: rounded towards zero to a
\* multiple of 2^trunc_bits.
TruncateResidual(residual) ==
    LET step == 2 ^ cfg.trunc_bits
    IN  IF residual >= 0 THEN (residual \div step) * step
        ELSE 0 - (((0 - residual) \div step) * step)

\* TruncatedIntStream::WriteLimited(residual, prediction, &value, &residual):
\* commits a code and reports the residual it committed and the value
\* prediction + committed residual that decoding will give.
WriteLimited(residual, prediction) ==
    LET r == TruncateResidual(residual)
    IN  [decompressed_value |-> prediction + r, decompressed_residual |-> r]

(* -------------------------------------------------------- LpcPrediction *)

\* LpcPrediction::LpcPrediction: t_ = 0, buffer_storage_ zero-filled,
\* residual_ value-initialised, the estimator freshly constructed.  Beside
\* the object's members the state records the calls of AcceptBlock: how many
\* were made (accepted) and what the last one was handed (window: the
\* lpc_order + block_size samples at buffer_start_[-lpc_order ..], and
\* window_residual: the block_size residuals).
InitLpcPrediction ==
    [t |-> 0,
     buffer |-> [i \in BufferIndex |-> 0],
     residual |-> [i \in ResidualIndex |-> 0],
     coeffs |-> InitialLpcCoeffs,
     accepted |-> 0,
     window |-> [i \in BufferIndex |-> 0],
     window_residual |-> [i \in ResidualIndex |-> 0]]

\* buffer_pos taken from t_ without the modulo.
BufferPos_NoModulo(p) == p.t

\* const int16_t *buffer_pos = buffer_start_ + (t_ % Config().block_size),
\* as an index relative to buffer_start_.
BufferPos(p) == p.t % block_size

\* LpcPrediction::GetPrediction
GetPrediction(p) ==
    compute_lpc_prediction(p.buffer, BufferPos(p), p.coeffs)

\* The index the copy loop reads for destination i: Config().block_size + i.
CopySource(i) == block_size + i

RECURSIVE CopyDown(_, _)
\* The copy made from the last left-context slot down to the first.
CopyDown(buffer, i) ==
    IF i < 0 - lpc_order THEN buffer
    ELSE CopyDown([buffer EXCEPT ![i] = buffer[CopySource(i)]], i - 1)

\* The copy loop run backwards: for (i = -1; i >= -lpc_order; i--).
CopyContext_Backward(buffer, i) == CopyDown(buffer, 0 - 1)

RECURSIVE CopyContext(_, _)
\* The loop of AdvanceLpcState, from index i on:
\*   for (i = -lpc_order; i < 0; i++) buffer_start_[i] = buffer_start_[block_size + i];
CopyContext(buffer, i) ==
    IF i >= 0 THEN buffer
    ELSE CopyContext([buffer EXCEPT ![i] = buffer[CopySource(i)]], i + 1)

\* AdvanceLpcState with the store moved ahead of the boundary work: the new
\* sample is already in slot 0 when the context is copied and the block
\* handed to the Estimator.
AdvanceLpcState_StoreFirst(p, value, residual) ==
    LET t_mod == p.t % block_size
        boundary == t_mod = 0 /\ p.t # 0
        buffer0 == [p.buffer EXCEPT ![t_mod] = value]
        residual0 == [p.residual EXCEPT ![t_mod] = residual]
        buffer1 == IF boundary THEN CopyContext(buffer0, 0 - lpc_order) ELSE buffer0
    IN  [t |-> p.t + 1,
         buffer |-> buffer1,
         residual |-> residual0,
         coeffs |-> IF boundary THEN AcceptBlock(buffer1, residual0) ELSE p.coeffs,
         accepted |-> IF boundary THEN p.accepted + 1 ELSE p.accepted,
         window |-> IF boundary THEN buffer1 ELSE p.window,
         window_residual |-> IF boundary THEN residual0 ELSE p.window_residual]

\* AdvanceLpcState with t_++ moved ahead of the store: the sample lands in the
\* slot of the next position.
AdvanceLpcState_StoreAfterIncrement(p, value, residual) ==
    LET t_mod == p.t % block_size
        slot == (p.t + 1) % block_size
        boundary == t_mod = 0 /\ p.t # 0
        buffer1 == IF boundary THEN CopyContext(p.buffer, 0 - lpc_order) ELSE p.buffer
    IN  [t |-> p.t + 1,
         buffer |-> [buffer1 EXCEPT ![slot] = value],
         residual |-> [p.residual EXCEPT ![slot] = residual],
         coeffs |-> IF boundary THEN AcceptBlock(buffer1, p.residual) ELSE p.coeffs,
         accepted |-> IF boundary THEN p.accepted + 1 ELSE p.accepted,
         window |-> IF boundary THEN buffer1 ELSE p.window,
         window_residual |-> IF boundary THEN p.residual ELSE p.window_residual]

\* AdvanceLpcState without the t_ != 0 guard: the boundary work is also done
\* for the very first sample.
AdvanceLpcState_BoundaryAtZero(p, value, residual) ==
    LET t_mod == p.t % block_size
        boundary == t_mod = 0
        buffer1 == IF boundary THEN CopyContext(p.buffer, 0 - lpc_order) ELSE p.buffer
    IN  [t |-> p.t + 1,
         buffer |-> [buffer1 EXCEPT ![t_mod] = value],
         residual |-> [p.residual EXCEPT ![t_mod] = residual],
         coeffs |-> IF boundary THEN AcceptBlock(buffer1, p.residual) ELSE p.coeffs,
         accepted |-> IF boundary THEN p.accepted + 1 ELSE p.accepted,
         window |-> IF boundary THEN buffer1 ELSE p.window,
         window_residual |-> IF boundary THEN p.residual ELSE p.window_residual]

\* AdvanceLpcState keeping t_ inside the block, as if it were the ring index.
AdvanceLpcState_TimeWrapped(p, value, residual) ==
    LET t_mod == p.t % block_size
        boundary == t_mod = 0 /\ p.t # 0
        buffer1 == IF boundary THEN CopyContext(p.buffer, 0 - lpc_order) ELSE p.buffer
    IN  [t |-> (p.t + 1) % block_size,
         buffer |-> [buffer1 EXCEPT ![t_mod] = value],
         residual |-> [p.residual EXCEPT ![t_mod] = residual],
         coeffs |-> IF boundary THEN AcceptBlock(buffer1, p.residual) ELSE p.coeffs,
         accepted |-> IF boundary THEN p.accepted + 1 ELSE p.accepted,
         window |-> IF boundary THEN buffer1 ELSE p.window,
         window_residual |-> IF boundary THEN p.residual ELSE p.window_residual]

\* The condition of the assert at the head of AdvanceLpcState.
AdvanceAssertion(p, value, residual) ==
    LET t_mod == p.t % block_size
    IN  t_mod > AssertSkipAbove \/ residual = value - GetPrediction(p)

\* LpcPrediction::AdvanceLpcState
AdvanceLpcState(p, value, residual) ==
    LET t_mod == p.t % block_size
        boundary == t_mod = 0 /\ p.t # 0
        buffer1 == IF boundary THEN CopyContext(p.buffer, 0 - lpc_order) ELSE p.buffer
        coeffs1 == IF boundary THEN AcceptBlock(buffer1, p.residual) ELSE p.coeffs
    IN  [t |-> p.t + 1,
         buffer |-> [buffer1 EXCEPT ![t_mod] = value],
         residual |-> [p.residual EXCEPT ![t_mod] = residual],
         coeffs |-> coeffs1,
         accepted |-> IF boundary THEN p.accepted + 1 ELSE p.accepted,
         window |-> IF boundary THEN buffer1 ELSE p.window,
         window_residual |-> IF boundary THEN p.residual ELSE p.window_residual]

(* ------------------------------------------------------------ LpcStream *)

\* Write with the residual's sign as the comment on AdvanceLpcState has it
\* (GetPrediction() - value).
LpcStreamWrite_SignFlipped(p, value) ==
    LET prediction == GetPrediction(p)
        residual == prediction - value
        w == WriteLimited(residual, prediction)
    IN  [state |-> AdvanceLpcState(p, w.decompressed_value, w.decompressed_residual),
         decompressed_value_out |-> w.decompressed_value,
         committed |-> w.decompressed_residual]

\* Write advancing the prediction state with the raw input and its exact
\* residual instead of what the coder committed.
LpcStreamWrite_AdvanceRaw(p, value) ==
    LET prediction == GetPrediction(p)
        residual == value - prediction
        w == WriteLimited(residual, prediction)
    IN  [state |-> AdvanceLpcState(p, value, residual),
         decompressed_value_out |-> w.decompressed_value,
         committed |-> w.decompressed_residual]

\* LpcStream::Write(value, decompressed_value_out), as a function of the
\* prediction state: the state after the call, the value reported through
\* decompressed_value_out and the residual the coder committed to the code.
LpcStreamWrite(p, value) ==
    LET prediction == GetPrediction(p)
        residual == value - prediction
        w == WriteLimited(residual, prediction)
    IN  [state |-> AdvanceLpcState(p, w.decompressed_value, w.decompressed_residual),
         decompressed_value_out |-> w.decompressed_value,
         committed |-> w.decompressed_residual]

(* ----------------------------------------------------- ReverseLpcStream *)

\* int32_t next_value = prediction + residual overflows the int type: undefined
\* behaviour in C++ (prediction is an int16_t promoted to int).
AddOverflows(prediction, residual) ==
    \/ prediction > 0 /\ residual > Int32Max - prediction
    \/ prediction < 0 /\ residual < Int32Min - prediction

\* The sum as it comes out when next_value is declared int16_t: reduced
\* modulo 2^16.
WrapAdd32_Narrow16(prediction, residual) ==
    (((prediction + (residual % 65536)) + 32768) % 65536) - 32768

\* The sum as a two's complement build computes it: reduced modulo 2^32.
WrapAdd32(prediction, residual) ==
    IF prediction > 0 /\ residual > Int32Max - prediction
    THEN Int32Min + ((prediction - (Int32Max - residual)) - 1)
    ELSE IF prediction < 0 /\ residual < Int32Min - prediction
    THEN Int32Max - (((Int32Min - residual) - prediction) - 1)
    ELSE prediction + residual

\* next_value != static_cast<int16_t>(next_value)
FailsRangeCheck(next_value) == ~InInt16(next_value)

\* Read handing the prediction to AdvanceLpcState where the residual belongs.
ReverseLpcStreamRead_AdvancePrediction(p, residual) ==
    LET prediction == GetPrediction(p)
        next_value == WrapAdd32(prediction, residual)
    IN  IF FailsRangeCheck(next_value)
        THEN [ret |-> FALSE, state |-> p, stores |-> <<>>]
        ELSE [ret |-> TRUE, state |-> AdvanceLpcState(p, next_value, prediction),
              stores |-> <<next_value>>]

\* Read with *value = next_value moved ahead of the range check.
ReverseLpcStreamRead_StoreBeforeCheck(p, residual) ==
    LET prediction == GetPrediction(p)
        next_value == WrapAdd32(prediction, residual)
    IN  IF FailsRangeCheck(next_value)
        THEN [ret |-> FALSE, state |-> p,
              stores |-> <<(((next_value % 65536) + 32768) % 65536) - 32768>>]
        ELSE [ret |-> TRUE, state |-> AdvanceLpcState(p, next_value, residual),
              stores |-> <<next_value>>]

\* Read that saturates an out-of-range sum instead of refusing it.
ReverseLpcStreamRead_Saturating(p, residual) ==
    LET prediction == GetPrediction(p)
        next_value == Clamp16(WrapAdd32(prediction, residual))
    IN  [ret |-> TRUE, state |-> AdvanceLpcState(p, next_value, residual),
         stores |-> <<next_value>>]

\* ReverseLpcStream::Read(value) once ReverseTruncatedIntStream::Read has
\* yielded `residual`: what it returns, the state after the call and what it
\* stores through *value (nothing, or one value).
ReverseLpcStreamRead(p, residual) ==
    LET prediction == GetPrediction(p)
        next_value == WrapAdd32(prediction, residual)
    IN  IF FailsRangeCheck(next_value)
        THEN [ret |-> FALSE, state |-> p, stores |-> <<>>]
        ELSE [ret |-> TRUE, state |-> AdvanceLpcState(p, next_value, residual),
              stores |-> <<next_value>>]

\* The decoder-side coder has yielded a residual the encoder did not commit
\* (the code buffer handed to ReverseLpcStream was damaged).
Damaged == codeIn # SubSeq(code, 1, Len(codeIn))

\* What ReverseTruncatedIntStream::Read may yield next: the next committed
\* residual, or, in a buffer damaged at this one code, something else.
NextResiduals ==
    IF Len(codeIn) >= Len(code) THEN {}
    ELSE {code[Len(codeIn) + 1]} \cup (IF Damaged THEN {} ELSE CorruptResiduals)

NoRead == [ret |-> FALSE, cause |-> "none"]
NoPrediction == [side |-> "none", value |-> 0]

(* ---------------------------------------------------------- the machine *)

Init ==
    /\ cfg \in [lpc_order : 0 .. MaxOrder, block_size : 1 .. MaxBlockSize,
                trunc_bits : TruncBitsOptions]
    /\ phase = "writing"
    /\ enc = InitLpcPrediction
    /\ dec = InitLpcPrediction
    /\ inp = <<>>
    /\ rec = <<>>
    /\ code = <<>>
    /\ codeIn = <<>>
    /\ out = <<>>
    /\ dres = <<>>
    /\ lastRead = NoRead
    /\ seen = {}
    /\ rangeFailed = FALSE
    /\ lastPred = NoPrediction

\* The longest stream a caller writes.
SampleLimit == IF block_size > MaxBlockSize THEN WideSamples ELSE MaxSamples

\* The caller writes one more sample.
Write(value) ==
    /\ phase = "writing"
    /\ Len(inp) < SampleLimit
    /\ LET w == LpcStreamWrite(enc, value)
       IN  /\ enc' = w.state
           /\ rec' = Append(rec, w.decompressed_value_out)
           /\ code' = Append(code, w.committed)
    /\ inp' = Append(inp, value)
    /\ lastPred' = NoPrediction
    /\ UNCHANGED <<cfg, phase, dec, codeIn, out, dres, lastRead, seen, rangeFailed>>

\* The caller flushes the encoder and constructs a ReverseLpcStream over the
\* code buffer.
OpenReader ==
    /\ phase = "writing"
    /\ phase' = "reading"
    /\ lastPred' = NoPrediction
    /\ UNCHANGED <<cfg, enc, dec, inp, rec, code, codeIn, out, dres, lastRead, seen,
                   rangeFailed>>

\* Read when the code buffer is exhausted: ReverseTruncatedIntStream::Read
\* fails and Read returns false at once.
ReadEndOfStream ==
    /\ phase = "reading"
    /\ Len(codeIn) >= Len(code)
    /\ lastRead' = [ret |-> FALSE, cause |-> "eos"]
    /\ seen' = seen \cup {lastRead'}
    /\ lastPred' = NoPrediction
    /\ UNCHANGED <<cfg, phase, enc, dec, inp, rec, code, codeIn, out, dres, rangeFailed>>

\* Read when the coder yields a residual.
ReadResidual(residual) ==
    /\ phase = "reading"
    /\ Len(codeIn) < Len(code)
    /\ codeIn' = Append(codeIn, residual)
    /\ LET r == ReverseLpcStreamRead(dec, residual)
       IN  /\ dec' = r.state
           /\ out' = out \o r.stores
           /\ dres' = IF r.ret THEN Append(dres, residual) ELSE dres
           /\ lastRead' = [ret |-> r.ret, cause |-> IF r.ret THEN "ok" ELSE "range"]
           /\ rangeFailed' = (rangeFailed \/ ~r.ret)
    /\ seen' = seen \cup {lastRead'}
    /\ lastPred' = NoPrediction
    /\ UNCHANGED <<cfg, phase, enc, inp, rec, code>>

\* Read when prediction + residual overflows int, in a build that traps on
\* signed overflow: the process stops inside Read.
ReadTrap(residual) ==
    /\ phase = "reading"
    /\ Len(codeIn) < Len(code)
    /\ AddOverflows(GetPrediction(dec), residual)
    /\ codeIn' = Append(codeIn, residual)
    /\ phase' = "aborted"
    /\ lastPred' = NoPrediction
    /\ UNCHANGED <<cfg, enc, dec, inp, rec, code, out, dres, lastRead, seen, rangeFailed>>

\* GetPrediction without its const: it leaves the prediction in the slot of
\* the current position.
CallGetPrediction_Storing(side) ==
    /\ phase # "aborted"
    /\ lastPred' = [side |-> side,
                    value |-> GetPrediction(IF side = "enc" THEN enc ELSE dec)]
    /\ enc' = IF side = "enc"
              THEN [enc EXCEPT !.buffer[enc.t % block_size] = lastPred'.value] ELSE enc
    /\ dec' = IF side = "dec"
              THEN [dec EXCEPT !.buffer[dec.t % block_size] = lastPred'.value] ELSE dec
    /\ UNCHANGED <<cfg, phase, inp, rec, code, codeIn, out, dres,
                   lastRead, seen, rangeFailed>>

\* A caller asks one of the two prediction states for its prediction.
CallGetPrediction(side) ==
    /\ phase # "aborted"
    /\ lastPred' = [side |-> side,
                    value |-> GetPrediction(IF side = "enc" THEN enc ELSE dec)]
    /\ UNCHANGED <<cfg, phase, enc, dec, inp, rec, code, codeIn, out, dres,
                   lastRead, seen, rangeFailed>>

Next ==
    \/ \E value \in Samples : Write(value)
    \/ OpenReader
    \/ ReadEndOfStream
    \/ \E residual \in NextResiduals : ReadResidual(residual)
    \/ \E residual \in NextResiduals : ReadTrap(residual)
    \/ \E side \in {"enc", "dec"} : CallGetPrediction(side)

Spec == Init /\ [][Next]_vars

\* Streams of two blocks of WideBlockSize samples.
InitWide ==
    /\ cfg \in [lpc_order : {MaxOrder}, block_size : {WideBlockSize},
                trunc_bits : TruncBitsOptions]
    /\ phase = "writing"
    /\ enc = InitLpcPrediction
    /\ dec = InitLpcPrediction
    /\ inp = <<>>
    /\ rec = <<>>
    /\ code = <<>>
    /\ codeIn = <<>>
    /\ out = <<>>
    /\ dres = <<>>
    /\ lastRead = NoRead
    /\ seen = {}
    /\ rangeFailed = FALSE
    /\ lastPred = NoPrediction

NextWide ==
    \/ \E value \in WideValues : Write(value)
    \/ OpenReader
    \/ ReadEndOfStream
    \/ \E residual \in NextResiduals : ReadResidual(residual)
    \/ \E residual \in NextResiduals : ReadTrap(residual)
    \/ \E side \in {"enc", "dec"} : CallGetPrediction(side)

SpecWide == InitWide /\ [][NextWide]_vars

(* ------------------------------------------------- vocabulary of the claims *)

Sides == {"enc", "dec"}

\* The prediction state of a side, the values it has committed (the encoder's
\* decompressed_value_out, the decoder's *value) and their residuals.
StateOf(side) == IF side = "enc" THEN enc ELSE dec
ValuesOf(side) == IF side = "enc" THEN rec ELSE out
ResidualsOf(side) == IF side = "enc" THEN code ELSE dres

\* The sample at time s of a history x; zero before the stream start.
SampleAt(x, s) == IF s < 0 THEN 0 ELSE x[s + 1]

\* The time at which the block holding time t starts.
BlockStart(t) == (t \div block_size) * block_size

\* What AdvanceLpcState hands to AcceptBlock when it crosses the boundary at
\* time b (a positive multiple of block_size), in terms of the history x, r:
\* the block slots hold times b - block_size .. b - 1, and the left-context
\* slots, just refreshed by the copy loop, hold times b - lpc_order .. b - 1.
BlockEstimate(x, r, b) ==
    AcceptBlock([i \in BufferIndex |->
                    IF i < 0 THEN SampleAt(x, b + i) ELSE x[b - block_size + i + 1]],
                [i \in ResidualIndex |-> r[b - block_size + i + 1]])

Lossless == cfg.trunc_bits = 0

(* ------------------------------------------------------------------ C1 *)

\* C1: round trip under a lossless coder.  When the coder commits every
\* residual unchanged and the decoder-side coder yields the committed
\* residuals, every Read so far has returned a value, and the values returned
\* are the samples written, in order.
RoundTripLossless_C1 ==
    (Lossless /\ ~Damaged) =>
        /\ Len(out) = Len(codeIn)
        /\ out = SubSeq(inp, 1, Len(codeIn))

\* A three-sample stream read back whole, with a prediction other than zero
\* on the way (a code differs from its sample).
RoundTripLossless_C1_Witness ==
    /\ Lossless /\ ~Damaged
    /\ Len(inp) = 3 /\ out = inp
    /\ \E i \in 1 .. 3 : code[i] # inp[i]

(* ------------------------------------------------------------------ C2 *)

\* C2: recoverability under a lossy coder.  Whatever the coder truncates, as
\* long as the decoder-side coder yields the committed residuals, the i-th
\* value Read returns is the i-th value Write reported through
\* decompressed_value_out.
RecoversReported_C2 ==
    ~Damaged =>
        /\ Len(out) = Len(codeIn)
        /\ out = SubSeq(rec, 1, Len(codeIn))

\* A stream read back whole whose reported values differ from its input.
RecoversReported_C2_Witness ==
    /\ ~Damaged
    /\ Len(inp) = 3 /\ out = rec /\ rec # inp
    /\ enc.coeffs # InitialLpcCoeffs

(* ------------------------------------------------------------------ C3 *)

\* C3: lockstep.  When the decoder has read as many samples as the encoder
\* has written, from the committed residuals, the two prediction states agree
\* in t_, in every slot of the history buffer (left context and block), in the
\* residual buffer and in the coefficient vector.
Lockstep_C3 ==
    (~Damaged /\ Len(codeIn) = Len(code)) =>
        /\ dec.t = enc.t
        /\ \A i \in BufferIndex : dec.buffer[i] = enc.buffer[i]
        /\ \A i \in ResidualIndex : dec.residual[i] = enc.residual[i]
        /\ \A j \in CoeffIndex : dec.coeffs[j] = enc.coeffs[j]

\* Both sides three samples in, past a block boundary, with estimated
\* coefficients and a refreshed left context that are not all zero.
Lockstep_C3_Witness ==
    /\ ~Damaged /\ Len(codeIn) = Len(code)
    /\ dec.t = 3 /\ enc.t = 3
    /\ lpc_order = 2
    /\ enc.coeffs # InitialLpcCoeffs
    /\ \E i \in BufferIndex : i < 0 /\ enc.buffer[i] # 0
    /\ rec # inp

(* ------------------------------------------------------------------ C4 *)

\* C4: a Read that fails its range check reports something else to the caller
\* than a Read at the end of the code buffer does.
RangeFailureDistinctFromEndOfStream_C4 ==
    \A a \in seen, b \in seen :
        (a.cause = "range" /\ b.cause = "eos") => a.ret # b.ret

(* ------------------------------------------------------------------ C5 *)

\* C5: once a Read has failed its range check, no later Read on the same
\* stream returns a value.
NoValueAfterRangeFailure_C5 ==
    rangeFailed => ~lastRead.ret

(* ------------------------------------------------------------------ C6 *)

\* C6: at every time t, the lpc_order samples GetPrediction combines with the
\* coefficients (buffer_pos[-1] .. buffer_pos[-lpc_order]) are the committed
\* samples of times t-1 .. t-lpc_order, zero before the stream start; at
\* t = k * block_size these are the last samples of the block just completed.
PredictionReadsLatestSamples_C6 ==
    \A side \in Sides :
        LET p == StateOf(side)
        IN  \A j \in CoeffIndex :
                p.buffer[(p.t % block_size) - j] = SampleAt(ValuesOf(side), p.t - j)

(* ------------------------------------------------------------------ C7 *)

\* C7: every position of a block k >= 1 is predicted with the vector the
\* Estimator produced when block k-1 was handed to it; so in a state whose
\* time t lies in block k the current coefficients are that vector, at the
\* first position of the block as at every other.
OneVectorPerBlock_C7 ==
    \A side \in Sides :
        LET p == StateOf(side)
        IN  p.t >= block_size =>
                p.coeffs = BlockEstimate(ValuesOf(side), ResidualsOf(side), BlockStart(p.t))

(* ------------------------------------------------------------------ C8 *)

\* C8: causality of the coefficients.  The vector GetPrediction uses at time
\* t is a function of the samples and residuals of times before the start of
\* the block holding t: the initial vector until an estimate has been made,
\* and from then on the estimate of the last boundary crossed, computed here
\* from the history cut off at that block start.
CoefficientsCausal_C8 ==
    \A side \in Sides :
        LET p == StateOf(side)
            start == BlockStart(p.t)
            x == SubSeq(ValuesOf(side), 1, start)
            r == SubSeq(ResidualsOf(side), 1, start)
        IN  p.coeffs = IF p.t <= block_size THEN InitialLpcCoeffs
                       ELSE BlockEstimate(x, r, BlockStart(p.t - 1))

\* A state inside a block (not at its first position) whose coefficients
\* were estimated and are not the initial ones, with samples of that block
\* already committed.
CoefficientsCausal_C8_Witness ==
    /\ block_size = 2 /\ lpc_order >= 1
    /\ enc.t = 3
    /\ enc.coeffs # InitialLpcCoeffs
    /\ rec[3] # 0

(* ------------------------------------------------------------------ C9 *)

\* C9: history holds committed values only.  After the advance for position
\* t, every position s <= t of the block of t is held at slot s mod
\* block_size: the history slot holds the committed value (for the encoder
\* the value reported through decompressed_value_out) and the residual slot
\* the committed residual.
HistoryHoldsCommitted_C9 ==
    \A side \in Sides :
        LET p == StateOf(side)
        IN  p.t >= 1 =>
                \A s \in BlockStart(p.t - 1) .. (p.t - 1) :
                    /\ p.buffer[s % block_size] = ValuesOf(side)[s + 1]
                    /\ p.residual[s % block_size] = ResidualsOf(side)[s + 1]

\* Two positions of one block held by both sides, the encoder's committed
\* value at the second differing from the raw input.
HistoryHoldsCommitted_C9_Witness ==
    /\ block_size = 2
    /\ enc.t = 2 /\ dec.t = 2
    /\ rec[2] # inp[2]
    /\ enc.buffer[1] = rec[2] /\ enc.buffer[0] = rec[1]
    /\ dec.buffer[1] = out[2]

(* ----------------------------------------------------------------- C10 *)

\* C10: GetPrediction is read-only.  A step in which a caller obtains a
\* prediction changes neither prediction state (t_, history, residuals,
\* coefficients), and when the previous step of that side was also a call,
\* the value is the one obtained before.
GetPredictionReadOnly_C10 ==
    [][lastPred'.side # "none" =>
          /\ enc' = enc
          /\ dec' = dec
          /\ (lastPred.side = lastPred'.side => lastPred'.value = lastPred.value)]_vars

\* A prediction other than zero obtained from a decoder two samples in.
GetPredictionReadOnly_C10_Witness ==
    /\ lastPred.side = "dec"
    /\ lastPred.value # 0
    /\ dec.t >= 2

(* ----------------------------------------------------------------- C11 *)

\* The boundary at which the last call of AcceptBlock was made: the start of
\* the block holding the last position advanced.
LastBoundary(p) == BlockStart(p.t - 1)

\* C11: the window handed to the Estimator is the block just completed
\* preceded by its own left context: the lpc_order left-context slots hold
\* the samples that immediately precede that block (zero before the stream
\* start), not samples from inside it.
EstimatorWindowHasOwnLeftContext_C11 ==
    \A side \in Sides :
        LET p == StateOf(side)
            first == LastBoundary(p) - block_size
        IN  p.accepted >= 1 =>
                \A i \in BufferIndex :
                    i < 0 => p.window[i] = SampleAt(ValuesOf(side), first + i)

(* ----------------------------------------------------------------- C12 *)

\* C12: an advance calls the Estimator and refreshes the left context exactly
\* when the time before it is a positive multiple of block_size; any other
\* advance, the first included, leaves the coefficients and the left-context
\* slots as they were.  So after n >= 1 advances the Estimator has been
\* called (n - 1) div block_size times.
EstimatorOncePerBlock_C12 ==
    /\ [](\A side \in Sides :
            LET p == StateOf(side)
            IN  p.accepted = IF p.t = 0 THEN 0 ELSE (p.t - 1) \div block_size)
    /\ [][\A side \in Sides :
            LET p == StateOf(side)
                q == StateOf(side)'
            IN  q.t # p.t =>
                    IF p.t % block_size = 0 /\ p.t # 0
                    THEN q.accepted = p.accepted + 1
                    ELSE /\ q.accepted = p.accepted
                         /\ q.coeffs = p.coeffs
                         /\ \A i \in BufferIndex : i < 0 => q.buffer[i] = p.buffer[i]]_vars

\* Both sides three samples into a stream of one-sample blocks: two calls
\* each, the last one leaving coefficients that are not the initial ones.
EstimatorOncePerBlock_C12_Witness ==
    /\ block_size = 1 /\ lpc_order >= 1
    /\ enc.t = 3 /\ enc.accepted = 2
    /\ dec.t = 3 /\ dec.accepted = 2
    /\ enc.coeffs # InitialLpcCoeffs

(* ----------------------------------------------------------------- C13 *)

\* C13: when the Estimator is called, the block_size block slots hold the
\* committed values of the block just completed and the residual buffer holds
\* their residuals, in time order; the sample that triggered the boundary is
\* stored only afterwards.
EstimatorSeesCompletedBlock_C13 ==
    \A side \in Sides :
        LET p == StateOf(side)
            first == LastBoundary(p) - block_size
        IN  p.accepted >= 1 =>
                \A i \in ResidualIndex :
                    /\ p.window[i] = ValuesOf(side)[first + i + 1]
                    /\ p.window_residual[i] = ResidualsOf(side)[first + i + 1]

\* A two-sample block handed to the Estimator, and the triggering sample, now
\* in slot 0, differing from what the Estimator saw there.
EstimatorSeesCompletedBlock_C13_Witness ==
    /\ block_size = 2
    /\ enc.t = 3 /\ enc.accepted = 1
    /\ enc.window[0] = rec[1] /\ enc.window[1] = rec[2]
    /\ enc.buffer[0] = rec[3] /\ rec[3] # rec[1]
    /\ enc.window_residual[0] # enc.residual[0]

(* ----------------------------------------------------------------- C14 *)

\* C14: after an advance that crossed the boundary at time b, the lpc_order
\* left-context slots hold, in time order, the committed samples of times
\* b - lpc_order .. b - 1 (zero before the stream start), for every order,
\* also when lpc_order > block_size and the copy's ranges overlap.
LeftContextRefreshed_C14 ==
    \A side \in Sides :
        LET p == StateOf(side)
        IN  p.accepted >= 1 =>
                \A i \in BufferIndex :
                    i < 0 => p.buffer[i] = SampleAt(ValuesOf(side), LastBoundary(p) + i)

\* lpc_order = 2 over one-sample blocks: the copy reads a left-context slot,
\* and the two slots end up holding two different samples.
LeftContextRefreshed_C14_Witness ==
    /\ lpc_order = 2 /\ block_size = 1
    /\ enc.t = 3
    /\ enc.buffer[-2] = rec[1] /\ enc.buffer[-1] = rec[2]
    /\ rec[1] # rec[2] /\ rec[1] # 0

(* ----------------------------------------------------------------- C15 *)

\* C15: the range check is exact.  In every Read that is handed a residual, a
\* value is returned exactly when prediction + residual, as mathematical
\* integers, lies in [-32768, 32767], and the value is that sum; a sum that left
\* the int range is never returned, whether the addition wraps (Read returns
\* false) or the build traps on it (Read does not return).
RangeCheckExact_C15 ==
    [][codeIn' # codeIn =>
          LET prediction == GetPrediction(dec)
              residual == codeIn'[Len(codeIn')]
              fits == /\ Int16Min - prediction <= residual
                      /\ residual <= Int16Max - prediction
          IN  /\ InInt16(prediction)
              /\ phase' = "reading" => (lastRead'.ret <=> fits)
              /\ phase' = "aborted" => ~fits
              /\ (out' # out) <=> fits
              /\ fits => out' = Append(out, prediction + residual)]_vars

\* A Read refused although the 32-bit sum wrapped: the residual was the
\* largest int32 and the prediction (unchanged by the refused Read) positive.
RangeCheckExact_C15_Witness ==
    /\ phase = "reading"
    /\ lastRead.cause = "range"
    /\ Len(codeIn) >= 1 /\ codeIn[Len(codeIn)] = Int32Max
    /\ GetPrediction(dec) > 0
    /\ AddOverflows(GetPrediction(dec), Int32Max)

(* ----------------------------------------------------------------- C16 *)

\* C16: a Read that returns without a value, at the end of the code buffer or
\* on a range violation, leaves the prediction state (t_, history, residual
\* buffer, coefficients) as it was and stores nothing through *value.
FailedReadLeavesState_C16 ==
    [][((codeIn' # codeIn \/ lastRead' # lastRead)
            /\ ~lastRead'.ret /\ phase' = "reading") =>
          /\ dec' = dec
          /\ out' = out]_vars

\* A Read refused by the range check in a decoder that already holds samples
\* and estimated coefficients.
FailedReadLeavesState_C16_Witness ==
    /\ lastRead.cause = "range"
    /\ dec.t >= 2 /\ Len(out) = dec.t
    /\ dec.coeffs # InitialLpcCoeffs
    /\ Len(codeIn) = dec.t + 1

(* ----------------------------------------------------------------- C17 *)

\* C17: t_ counts the samples processed.  It is the number of samples written
\* (encoder) or returned by Read (decoder) in every state, it changes only in
\* a Write or a Read that returns a value, and then by exactly +1.
TimeCountsSamples_C17 ==
    /\ [](enc.t = Len(inp) /\ dec.t = Len(out))
    /\ [][/\ enc'.t # enc.t => (enc'.t = enc.t + 1 /\ Len(inp') = Len(inp) + 1)
          /\ dec'.t # dec.t => (dec'.t = dec.t + 1 /\ lastRead'.ret
                                   /\ Len(out') = Len(out) + 1)
          /\ Len(inp') # Len(inp) => enc'.t = enc.t + 1
          /\ Len(out') # Len(out) => dec'.t = dec.t + 1]_vars

\* Three samples written, three codes consumed, one of them refused: the
\* decoder's t_ is 2.
TimeCountsSamples_C17_Witness ==
    /\ enc.t = 3 /\ Len(codeIn) = 3
    /\ rangeFailed /\ dec.t = 2
    /\ phase = "reading"

(* ----------------------------------------------------------------- C18 *)

AccessesInBounds_C19 ==
    \A side \in Sides :
        LET p == StateOf(side)
            t_mod == p.t % block_size
        IN  /\ DOMAIN p.buffer = BufferIndex
            /\ DOMAIN p.residual = ResidualIndex
            /\ \A j \in CoeffIndex : BufferPos(p) - j \in BufferIndex
            /\ t_mod \in BufferIndex /\ t_mod \in ResidualIndex
            /\ (t_mod = 0 /\ p.t # 0) =>
                 \A i \in (0 - lpc_order) .. (0 - 1) :
                     i \in BufferIndex /\ CopySource(i) \in BufferIndex

\* Both sides stand at a block boundary with an order above the block size:
\* the copy about to run reads slots of the left context itself.
AccessesInBounds_C19_Witness ==
    /\ lpc_order > block_size
    /\ enc.t >= 2 /\ enc.t % block_size = 0
    /\ dec.t >= 1 /\ dec.t % block_size = 0
    /\ \E i \in (0 - lpc_order) .. (0 - 1) : CopySource(i) < 0

====
